---- MODULE Spec2Model ----
(***************************************************************************)
(* Model of the video streaming path of vid-share-backend:                 *)
(*   src/app/routers/consumers.py  stream_video / generate_chunks          *)
(*   src/app/blob_storage.py       get_blob_size / download_blob_chunk     *)
(*   src/app/crud.py               get_video                               *)
(*                                                                         *)
(* A stream request is followed from the catalog lookup through the size   *)
(* query, the parsing and validation of the Range header, the assembly of  *)
(* the response headers and the chunk-by-chunk relay of the blob.  The      *)
(* Range header is a sequence of characters and is parsed the way the code *)
(* parses it (str.replace, str.split, int).  The blob store is external:   *)
(* a read returns any number of bytes from 0 up to what was requested and  *)
(* is available in the blob, or raises.  generate_chunks is a generator:   *)
(* it runs only while the response pulls a chunk from it, and the client   *)
(* may disconnect at any point where the stream is suspended.              *)
(*                                                                         *)
(* A second specification, SpecAdmin, models the promotion of users:       *)
(*   src/app/routers/admin.py      enroll_creator                          *)
(*   src/app/auth_utils.py         get_current_user / role_required        *)
(*   src/app/crud.py               get_user / update_user_role / create_user*)
(***************************************************************************)
EXTENDS Integers, Sequences, FiniteSets, TLC

\* ---------------------------------------------------------------- bounds
\* Largest blob size (bytes) the store holds.
MaxSize == 3
\* Longest Range header, in characters after the optional prefix "bytes=".
MaxBodyLen == 3
\* Most reads one stream issues (a relay that gets 0 bytes never advances).
MaxReads == 4
\* consumers.py:76 sets chunk_size = 1024 * 1024; scaled down here.
chunk_size == 2

\* One stream operation per client connection.
Streams == {1}
\* Video ids a client may ask for, and the ids that have a row in videos.
VideoIds == {1, 2}
Catalog == {1}

\* The characters of a header: digits, the separator, a letter, and the
\* unit prefix "bytes=" taken as one character.
DigitChars == {"0", "1", "2", "3"}
Chars == DigitChars \cup {"-", "a"}
Bodies == UNION {[1..n -> Chars] : n \in 0..MaxBodyLen}
HeaderTexts == {p \o b : p \in {<<>>, <<"bytes=">>}, b \in Bodies}
\* Longer header texts: two ranges separated by a comma, and a range with a
\* third part.
LongTexts == {<<"bytes=", "0", "-", "1", ",", "2", "-", "3">>,
              <<"bytes=", "0", "-", "1", "-", "2">>}
\* Header(None): the header is absent, or it is the given text.
NoHeader == [present |-> FALSE, text |-> <<>>]
Headers == {NoHeader} \cup {[present |-> TRUE, text |-> t] : t \in HeaderTexts \cup LongTexts}

\* ---------------------------------------------------------- status codes
HTTP_206_PARTIAL_CONTENT == 206
HTTP_404_NOT_FOUND == 404
HTTP_416_REQUESTED_RANGE_NOT_SATISFIABLE == 416

Min(a, b) == IF a <= b THEN a ELSE b
Max(a, b) == IF a >= b THEN a ELSE b

\* ------------------------------------------------------ Python str / int
IsDigit(c) == c \in {"0", "1", "2", "3", "4", "5", "6", "7", "8", "9"}

DigitVal(c) ==
  CASE c = "0" -> 0 [] c = "1" -> 1 [] c = "2" -> 2 [] c = "3" -> 3
    [] c = "4" -> 4 [] c = "5" -> 5 [] c = "6" -> 6 [] c = "7" -> 7
    [] c = "8" -> 8 [] c = "9" -> 9

\* range.replace("bytes=", ""): every occurrence of the prefix is removed.
StripPrefix(text) == SelectSeq(text, LAMBDA c : c # "bytes=")

\* str.split(sep): always at least one part; parts may be empty.
RECURSIVE Split(_, _)
Split(text, sep) ==
  IF \A i \in 1..Len(text) : text[i] # sep
  THEN <<text>>
  ELSE LET k == CHOOSE i \in 1..Len(text) :
                  /\ text[i] = sep
                  /\ \A j \in 1..(i - 1) : text[j] # sep
       IN <<SubSeq(text, 1, k - 1)>> \o Split(SubSeq(text, k + 1, Len(text)), sep)

\* int(s) raises ValueError unless s is a non-empty run of digits.
IntParses(part) == Len(part) > 0 /\ \A i \in 1..Len(part) : IsDigit(part[i])

RECURSIVE IntOf(_)
IntOf(part) ==
  IF Len(part) = 0 THEN 0
  ELSE 10 * IntOf(SubSeq(part, 1, Len(part) - 1)) + DigitVal(part[Len(part)])

\* ------------------------------------------------- stream_video, 60 - 72
\* Faulty variant: the last byte taken to be at index file_size.
DefaultEnd_OffByOne(size) == size

\* consumers.py:61  end_byte = file_size - 1
DefaultEnd(size) == size - 1

\* Faulty variant: an open-ended range taken to end at index file_size.
OpenEnd_OffByOne(size) == size

\* consumers.py:69  end_byte = file_size - 1 (no end part in the header)
OpenEnd(size) == size - 1

\* consumers.py:63  if range:  (None and "" are both falsy)
Truthy(rng) == rng.present /\ Len(rng.text) > 0

\* consumers.py:64  range.replace("bytes=", "").split("-")
RangeParts(text) == Split(StripPrefix(text), "-")

\* Faulty variant: the length test off by one, so "a-b" has no end part.
HasEndPart_OffByOne(parts) == Len(parts) > 2 /\ Len(parts[2]) > 0

\* consumers.py:66  len(range_parts) > 1 and range_parts[1]
HasEndPart(parts) == Len(parts) > 1 /\ Len(parts[2]) > 0

\* consumers.py:60-69: the values of start_byte and end_byte after parsing,
\* or the ValueError int() raises.
ParseRange(rng, size) ==
  IF ~Truthy(rng)
  THEN [exc |-> "none", start |-> 0, end |-> DefaultEnd(size)]
  ELSE LET parts == RangeParts(rng.text) IN
       IF ~IntParses(parts[1])
       THEN [exc |-> "ValueError", start |-> 0, end |-> DefaultEnd(size)]
       ELSE IF HasEndPart(parts)
            THEN IF ~IntParses(parts[2])
                 THEN [exc |-> "ValueError", start |-> IntOf(parts[1]),
                       end |-> DefaultEnd(size)]
                 ELSE [exc |-> "none", start |-> IntOf(parts[1]),
                       end |-> IntOf(parts[2])]
            ELSE [exc |-> "none", start |-> IntOf(parts[1]), end |-> OpenEnd(size)]

\* Faulty variant: an empty object is let through, to be served as an empty
\* body.
Unsatisfiable_EmptyPasses(start, size) == size > 0 /\ (start >= size \/ start < 0)

\* Faulty variant: > for >=, so start_byte = file_size passes.
Unsatisfiable_Strict(start, size) == start > size \/ start < 0

\* consumers.py:71  if start_byte >= file_size or start_byte < 0
Unsatisfiable(start, size) == start >= size \/ start < 0

\* consumers.py:85-90  Content-Length and Content-Range
ResponseHeaders(start, end, size) ==
  [content_length |-> end - start + 1,
   content_range  |-> [start |-> start, end |-> end, size |-> size]]

NoHeaders ==
  [content_length |-> -1, content_range |-> [start |-> -1, end |-> -1, size |-> -1]]

\* ------------------------------------------------ generate_chunks, 74-83
\* consumers.py:79  while current_offset <= end_byte
LoopContinues(offset, end) == offset <= end

\* Faulty variant: the rest of the range is read in one call.
ChunkEnd_Unbounded(offset, end) == end

\* Faulty variant: the inclusive end computed without the - 1.
ChunkEnd_OffByOne(offset, end) == Min(offset + chunk_size, end)

\* consumers.py:80  chunk_end = min(current_offset + chunk_size - 1, end_byte)
ChunkEnd(offset, end) == Min(offset + chunk_size - 1, end)

\* Faulty variant: the cursor never moved.
NextOffset_Stuck(offset, len) == offset

\* Faulty variant: the cursor moved by the requested length.
NextOffset_ByChunkSize(offset, len) == offset + chunk_size

\* consumers.py:83  current_offset += len(chunk)
NextOffset(offset, len) == offset + len

\* blob_storage.py:56-57  download_blob(offset, length).readall(): the byte
\* counts the store can return for a read of [from, to] of a blob of `size`
\* bytes.
StoreReturns(from, to, size) == 0..Min(to - from + 1, Max(0, size - from))

\* Faulty variant: the None test left out.
VideoMissing_Never(vid) == FALSE

\* crud.py:80-103, consumers.py:53  get_video returns None: no row has the id
VideoMissing(vid) == vid \notin Catalog

\* --------------------------------------------------- users and roles
\* Ids of the users table, and concurrent POST /admin/creators calls.
UserIds == {1, 2, 3}
Calls == {1, 2}
\* models.py:14  'consumer', 'creator', 'admin'; "absent": no row has the id.
Roles == {"consumer", "creator", "admin"}
HTTP_400_BAD_REQUEST == 400
HTTP_401_UNAUTHORIZED == 401
HTTP_403_FORBIDDEN == 403

\* Faulty variant: the role test left out of the dependency.
RoleAllowed_Any(role, required_role) == TRUE

\* auth_utils.py:79  if current_user["role"] != required_role: 403
RoleAllowed(role, required_role) == role = required_role

\* ------------------------------------------------------------------ state
VARIABLES
  blobSize,        \* the store: size in bytes of the catalogued video's blob
  pc,              \* per stream: where the handler / generator stands
  video_id,        \* per stream: path parameter
  range,           \* per stream: the Range header
  file_size,       \* per stream: what get_blob_size returned (-1: not yet)
  start_byte,      \* per stream
  end_byte,        \* per stream
  exc,             \* per stream: exception that escaped the handler
  status,          \* per stream: HTTP status of the response (0: none yet)
  headers,         \* per stream: Content-Length, Content-Range
  current_offset,  \* per stream: generate_chunks' cursor
  chunk,           \* per stream: length of the chunk the generator holds (-1: none)
  headCalls,       \* per stream: get_blob_size calls issued
  reads,           \* per stream: download_blob_chunk calls issued, in order
  chunks,          \* per stream: chunks yielded to the response, in order
  pulled,          \* per stream: chunks the response has asked the generator for
  connected,       \* per stream: the client connection is open
  roles,           \* the users table: role of each id ("absent": no row)
  apc,             \* per call: where enroll_creator stands
  caller,          \* per call: the user the bearer token names
  user_id,         \* per call: query parameter, the user to promote
  current_role,    \* per call: current_user["role"] as the dependency read it
  astatus          \* per call: HTTP status of the response (0: none yet)

vars == <<blobSize, pc, video_id, range, file_size, start_byte, end_byte, exc,
          status, headers, current_offset, chunk, headCalls, reads, chunks,
          pulled, connected, roles, apc, caller, user_id, current_role, astatus>>

reqVars == <<video_id, range>>
resVars == <<file_size, start_byte, end_byte, exc, status, headers>>
relayVars == <<current_offset, chunk, reads, chunks>>
connVars == <<pulled, connected>>
callVars == <<apc, caller, user_id, current_role, astatus>>
adminVars == <<roles, callVars>>
streamVars == <<blobSize, pc, reqVars, resVars, relayVars, connVars, headCalls>>

\* No call of enroll_creator is under way.
NoCalls ==
  /\ apc = [c \in Calls |-> "idle"]
  /\ caller = [c \in Calls |-> 0]
  /\ user_id = [c \in Calls |-> 0]
  /\ current_role = [c \in Calls |-> "none"]
  /\ astatus = [c \in Calls |-> 0]

Init ==
  /\ blobSize \in 0..MaxSize
  /\ pc = [s \in Streams |-> "idle"]
  /\ video_id = [s \in Streams |-> 0]
  /\ range = [s \in Streams |-> NoHeader]
  /\ file_size = [s \in Streams |-> -1]
  /\ start_byte = [s \in Streams |-> 0]
  /\ end_byte = [s \in Streams |-> 0]
  /\ exc = [s \in Streams |-> "none"]
  /\ status = [s \in Streams |-> 0]
  /\ headers = [s \in Streams |-> NoHeaders]
  /\ current_offset = [s \in Streams |-> 0]
  /\ chunk = [s \in Streams |-> -1]
  /\ headCalls = [s \in Streams |-> 0]
  /\ reads = [s \in Streams |-> <<>>]
  /\ chunks = [s \in Streams |-> <<>>]
  /\ pulled = [s \in Streams |-> 0]
  /\ connected = [s \in Streams |-> TRUE]
  /\ roles = [u \in UserIds |-> "consumer"]
  /\ NoCalls

\* GET /{video_id}/stream arrives (authenticated) with an optional Range header.
Request(s) ==
  /\ pc[s] = "idle"
  /\ \E vid \in VideoIds, h \in Headers :
       /\ video_id' = [video_id EXCEPT ![s] = vid]
       /\ range' = [range EXCEPT ![s] = h]
  /\ pc' = [pc EXCEPT ![s] = "lookup"]
  /\ UNCHANGED <<adminVars, blobSize, connVars, resVars, relayVars, headCalls>>

\* consumers.py:52-54: no row, 404.
LookupMissing(s) ==
  /\ pc[s] = "lookup"
  /\ VideoMissing(video_id[s])
  /\ status' = [status EXCEPT ![s] = HTTP_404_NOT_FOUND]
  /\ pc' = [pc EXCEPT ![s] = "responded"]
  /\ UNCHANGED <<adminVars, blobSize, connVars, reqVars, file_size, start_byte, end_byte, exc, headers,
                 relayVars, headCalls>>

\* Faulty variant: the size query is skipped (a size kept from an earlier
\* request is used).
LookupFound_NoQuery(s) ==
  /\ pc[s] = "lookup"
  /\ ~VideoMissing(video_id[s])
  /\ pc' = [pc EXCEPT ![s] = "head"]
  /\ UNCHANGED <<adminVars, blobSize, connVars, reqVars, resVars, relayVars, headCalls>>

\* consumers.py:52-58: the row is found, get_blob_size is called.
LookupFound(s) ==
  /\ pc[s] = "lookup"
  /\ ~VideoMissing(video_id[s])
  /\ headCalls' = [headCalls EXCEPT ![s] = @ + 1]
  /\ pc' = [pc EXCEPT ![s] = "head"]
  /\ UNCHANGED <<adminVars, blobSize, connVars, reqVars, resVars, relayVars>>

\* blob_storage.py:70 raises: the exception escapes stream_video, and the
\* framework answers an unhandled exception with 500.
HeadFail(s) ==
  /\ pc[s] = "head"
  /\ exc' = [exc EXCEPT ![s] = "StoreError"]
  /\ status' = [status EXCEPT ![s] = 500]
  /\ pc' = [pc EXCEPT ![s] = "responded"]
  /\ UNCHANGED <<adminVars, blobSize, connVars, reqVars, file_size, start_byte, end_byte, headers,
                 relayVars, headCalls>>

\* consumers.py:58-92: get_blob_size returns; the header is parsed and
\* validated and the StreamingResponse is built.
HeadReturn(s) ==
  /\ pc[s] = "head"
  /\ LET size == blobSize
         r == ParseRange(range[s], size)
     IN /\ file_size' = [file_size EXCEPT ![s] = size]
        /\ start_byte' = [start_byte EXCEPT ![s] = r.start]
        /\ end_byte' = [end_byte EXCEPT ![s] = r.end]
        /\ exc' = [exc EXCEPT ![s] = r.exc]
        /\ IF r.exc # "none"
           THEN /\ status' = [status EXCEPT ![s] = 500]
                /\ pc' = [pc EXCEPT ![s] = "responded"]
                /\ UNCHANGED <<headers, current_offset>>
           ELSE IF Unsatisfiable(r.start, size)
           THEN /\ status' = [status EXCEPT ![s] = HTTP_416_REQUESTED_RANGE_NOT_SATISFIABLE]
                /\ pc' = [pc EXCEPT ![s] = "responded"]
                /\ UNCHANGED <<headers, current_offset>>
           ELSE /\ status' = [status EXCEPT ![s] = HTTP_206_PARTIAL_CONTENT]
                /\ headers' = [headers EXCEPT ![s] = ResponseHeaders(r.start, r.end, size)]
                /\ current_offset' = [current_offset EXCEPT ![s] = r.start]
                /\ pc' = [pc EXCEPT ![s] = "ready"]
  /\ UNCHANGED <<adminVars, blobSize, connVars, reqVars, chunk, reads, chunks, headCalls>>

\* consumers.py:82, 92: the response asks the generator for its next chunk.
\* The first pull starts the generator body; a later one resumes it after
\* the yield.
Pull(s) ==
  /\ connected[s]
  /\ pc[s] \in {"ready", "suspended"}
  /\ pulled' = [pulled EXCEPT ![s] = @ + 1]
  /\ pc' = [pc EXCEPT ![s] = IF pc[s] = "ready" THEN "loop" ELSE "advance"]
  /\ UNCHANGED <<adminVars, blobSize, reqVars, resVars, relayVars, headCalls, connected>>

\* consumers.py:81-82, 92: the client goes away while the stream is suspended
\* (before the first pull, during a read, or at the yield); the response
\* stops pulling and the generator is never resumed.
Disconnect(s) ==
  /\ connected[s]
  /\ pc[s] \in {"ready", "reading", "suspended"}
  /\ connected' = [connected EXCEPT ![s] = FALSE]
  /\ pc' = [pc EXCEPT ![s] = "cancelled"]
  /\ UNCHANGED <<adminVars, blobSize, reqVars, resVars, relayVars, headCalls, pulled>>

\* consumers.py:79-81: the loop test holds, download_blob_chunk is called.
IssueRead(s) ==
  /\ pc[s] = "loop"
  /\ LoopContinues(current_offset[s], end_byte[s])
  /\ Len(reads[s]) < MaxReads
  /\ reads' = [reads EXCEPT ![s] =
                 Append(@, [from |-> current_offset[s],
                            to |-> ChunkEnd(current_offset[s], end_byte[s])])]
  /\ pc' = [pc EXCEPT ![s] = "reading"]
  /\ UNCHANGED <<adminVars, blobSize, connVars, reqVars, resVars, current_offset, chunk, chunks, headCalls>>

\* blob_storage.py:56-58: the store returns n bytes.
ReadReturn(s) ==
  /\ pc[s] = "reading"
  /\ LET rd == reads[s][Len(reads[s])] IN
       \E n \in StoreReturns(rd.from, rd.to, blobSize) :
         chunk' = [chunk EXCEPT ![s] = n]
  /\ pc' = [pc EXCEPT ![s] = "yield"]
  /\ UNCHANGED <<adminVars, blobSize, connVars, reqVars, resVars, current_offset, reads, chunks, headCalls>>

\* Faulty variant: the failure is noted and the loop goes round again, so
\* the same read is issued a second time.
ReadFail_Retries(s) ==
  /\ pc[s] = "reading"
  /\ exc' = [exc EXCEPT ![s] = "StoreError"]
  /\ pc' = [pc EXCEPT ![s] = "loop"]
  /\ UNCHANGED <<adminVars, blobSize, connVars, reqVars, file_size, start_byte, end_byte,
                 status, headers, relayVars, headCalls>>

\* Faulty variant: the failure is answered like one that happens before the
\* response started, with status 500.
ReadFail_Answers500(s) ==
  /\ pc[s] = "reading"
  /\ exc' = [exc EXCEPT ![s] = "StoreError"]
  /\ status' = [status EXCEPT ![s] = 500]
  /\ pc' = [pc EXCEPT ![s] = "aborted"]
  /\ UNCHANGED <<adminVars, blobSize, connVars, reqVars, file_size, start_byte, end_byte,
                 headers, relayVars, headCalls>>

\* blob_storage.py:56-57 raises: the exception ends the generator and the
\* response is cut off.
ReadFail(s) ==
  /\ pc[s] = "reading"
  /\ exc' = [exc EXCEPT ![s] = "StoreError"]
  /\ pc' = [pc EXCEPT ![s] = "aborted"]
  /\ UNCHANGED <<adminVars, blobSize, connVars, reqVars, file_size, start_byte, end_byte, status, headers,
                 relayVars, headCalls>>

\* Faulty variant: the chunk is handed over and the loop goes on without
\* waiting to be asked for the next one (the whole range is read eagerly).
Yield_Eager(s) ==
  /\ pc[s] = "yield"
  /\ chunks' = [chunks EXCEPT ![s] =
                  Append(@, [from |-> current_offset[s], len |-> chunk[s]])]
  /\ pc' = [pc EXCEPT ![s] = "advance"]
  /\ UNCHANGED <<adminVars, blobSize, connVars, reqVars, resVars, current_offset, chunk, reads, headCalls>>

\* consumers.py:82: yield chunk; the generator is suspended until the next
\* pull.
Yield(s) ==
  /\ pc[s] = "yield"
  /\ chunks' = [chunks EXCEPT ![s] =
                  Append(@, [from |-> current_offset[s], len |-> chunk[s]])]
  /\ pc' = [pc EXCEPT ![s] = "suspended"]
  /\ UNCHANGED <<adminVars, blobSize, connVars, reqVars, resVars, current_offset, chunk, reads, headCalls>>

\* Faulty variant: the cursor is one module-level variable that every
\* generator advances, not a local of each call.
Advance_SharedCursor(s) ==
  /\ pc[s] = "advance"
  /\ current_offset' = [t \in DOMAIN current_offset |->
                          NextOffset(current_offset[s], chunk[s])]
  /\ chunk' = [chunk EXCEPT ![s] = -1]
  /\ pc' = [pc EXCEPT ![s] = "loop"]
  /\ UNCHANGED <<adminVars, blobSize, connVars, reqVars, resVars, reads, chunks, headCalls>>

\* consumers.py:83: the generator is resumed and advances its cursor.
Advance(s) ==
  /\ pc[s] = "advance"
  /\ current_offset' = [current_offset EXCEPT ![s] = NextOffset(@, chunk[s])]
  /\ chunk' = [chunk EXCEPT ![s] = -1]
  /\ pc' = [pc EXCEPT ![s] = "loop"]
  /\ UNCHANGED <<adminVars, blobSize, connVars, reqVars, resVars, reads, chunks, headCalls>>

\* consumers.py:79: the loop test fails, the generator is exhausted.
Finish(s) ==
  /\ pc[s] = "loop"
  /\ ~LoopContinues(current_offset[s], end_byte[s])
  /\ pc' = [pc EXCEPT ![s] = "done"]
  /\ UNCHANGED <<adminVars, blobSize, connVars, reqVars, resVars, relayVars, headCalls>>

Next ==
  \E s \in Streams :
    \/ Request(s)
    \/ LookupMissing(s)
    \/ LookupFound(s)
    \/ HeadFail(s)
    \/ HeadReturn(s)
    \/ Pull(s)
    \/ Disconnect(s)
    \/ IssueRead(s)
    \/ ReadReturn(s)
    \/ ReadFail(s)
    \/ Yield(s)
    \/ Advance(s)
    \/ Finish(s)

Spec == Init /\ [][Next]_vars

\* ------------------------------------------------ users: signup, promotion
\* The users table holds any rows; no stream is under way.
InitAdmin ==
  /\ blobSize = 0
  /\ pc = [s \in Streams |-> "idle"]
  /\ video_id = [s \in Streams |-> 0]
  /\ range = [s \in Streams |-> NoHeader]
  /\ file_size = [s \in Streams |-> -1]
  /\ start_byte = [s \in Streams |-> 0]
  /\ end_byte = [s \in Streams |-> 0]
  /\ exc = [s \in Streams |-> "none"]
  /\ status = [s \in Streams |-> 0]
  /\ headers = [s \in Streams |-> NoHeaders]
  /\ current_offset = [s \in Streams |-> 0]
  /\ chunk = [s \in Streams |-> -1]
  /\ headCalls = [s \in Streams |-> 0]
  /\ reads = [s \in Streams |-> <<>>]
  /\ chunks = [s \in Streams |-> <<>>]
  /\ pulled = [s \in Streams |-> 0]
  /\ connected = [s \in Streams |-> TRUE]
  /\ roles \in [UserIds -> Roles \cup {"absent"}]
  /\ NoCalls

\* auth.py:14-45, crud.py:24-33: signup inserts a row with the default role.
Signup(u) ==
  /\ roles[u] = "absent"
  /\ roles' = [roles EXCEPT ![u] = "consumer"]
  /\ UNCHANGED <<streamVars, callVars>>

\* POST /admin/creators?user_id=... arrives with a bearer token.
EnrollRequest(c) ==
  /\ apc[c] = "idle"
  /\ \E who \in UserIds, u \in UserIds :
       /\ caller' = [caller EXCEPT ![c] = who]
       /\ user_id' = [user_id EXCEPT ![c] = u]
  /\ apc' = [apc EXCEPT ![c] = "auth"]
  /\ UNCHANGED <<streamVars, roles, current_role, astatus>>

\* auth_utils.py:60-62: the token names no row of users, 401.
AuthUnknown(c) ==
  /\ apc[c] = "auth"
  /\ roles[caller[c]] = "absent"
  /\ astatus' = [astatus EXCEPT ![c] = HTTP_401_UNAUTHORIZED]
  /\ apc' = [apc EXCEPT ![c] = "responded"]
  /\ UNCHANGED <<streamVars, roles, caller, user_id, current_role>>

\* auth_utils.py:78-83: require_admin refuses any other role, 403.
AuthForbidden(c) ==
  /\ apc[c] = "auth"
  /\ roles[caller[c]] # "absent"
  /\ ~RoleAllowed(roles[caller[c]], "admin")
  /\ current_role' = [current_role EXCEPT ![c] = roles[caller[c]]]
  /\ astatus' = [astatus EXCEPT ![c] = HTTP_403_FORBIDDEN]
  /\ apc' = [apc EXCEPT ![c] = "responded"]
  /\ UNCHANGED <<streamVars, roles, caller, user_id>>

\* auth_utils.py:78-84: require_admin lets the caller through.
AuthAdmin(c) ==
  /\ apc[c] = "auth"
  /\ roles[caller[c]] # "absent"
  /\ RoleAllowed(roles[caller[c]], "admin")
  /\ current_role' = [current_role EXCEPT ![c] = roles[caller[c]]]
  /\ apc' = [apc EXCEPT ![c] = "lookup"]
  /\ UNCHANGED <<streamVars, roles, caller, user_id, astatus>>

\* admin.py:17-19: get_user finds no row, 404.
EnrollUnknown(c) ==
  /\ apc[c] = "lookup"
  /\ roles[user_id[c]] = "absent"
  /\ astatus' = [astatus EXCEPT ![c] = HTTP_404_NOT_FOUND]
  /\ apc' = [apc EXCEPT ![c] = "responded"]
  /\ UNCHANGED <<streamVars, roles, caller, user_id, current_role>>

\* admin.py:21-22: the user is a creator already, 400.
EnrollAlready(c) ==
  /\ apc[c] = "lookup"
  /\ roles[user_id[c]] = "creator"
  /\ astatus' = [astatus EXCEPT ![c] = HTTP_400_BAD_REQUEST]
  /\ apc' = [apc EXCEPT ![c] = "responded"]
  /\ UNCHANGED <<streamVars, roles, caller, user_id, current_role>>

\* admin.py:17-24: the row is found and is no creator; update_user_role is
\* called.
EnrollLookup(c) ==
  /\ apc[c] = "lookup"
  /\ roles[user_id[c]] \notin {"absent", "creator"}
  /\ apc' = [apc EXCEPT ![c] = "update"]
  /\ UNCHANGED <<streamVars, roles, caller, user_id, current_role, astatus>>

\* crud.py:50-58, admin.py:24-25: UPDATE users SET role = 'creator' WHERE
\* id = user_id; the updated row is returned with 200.
EnrollUpdate(c) ==
  /\ apc[c] = "update"
  /\ roles' = [roles EXCEPT ![user_id[c]] = "creator"]
  /\ astatus' = [astatus EXCEPT ![c] = 200]
  /\ apc' = [apc EXCEPT ![c] = "responded"]
  /\ UNCHANGED <<streamVars, caller, user_id, current_role>>

NextAdmin ==
  \/ \E u \in UserIds : Signup(u)
  \/ \E c \in Calls :
       \/ EnrollRequest(c)
       \/ AuthUnknown(c)
       \/ AuthForbidden(c)
       \/ AuthAdmin(c)
       \/ EnrollUnknown(c)
       \/ EnrollAlready(c)
       \/ EnrollLookup(c)
       \/ EnrollUpdate(c)

SpecAdmin == InitAdmin /\ [][NextAdmin]_vars

\* ------------------------------------------------------- derived notions
RECURSIVE SumLen(_)
SumLen(cs) == IF Len(cs) = 0 THEN 0 ELSE cs[1].len + SumLen(Tail(cs))

\* Total number of body bytes the stream has emitted.
Emitted(s) == SumLen(chunks[s])

\* The range was resolved and the response started streaming.
Streaming(s) ==
  pc[s] \in {"ready", "loop", "reading", "yield", "suspended", "advance", "done",
            "aborted", "cancelled"}

\* The handler is past parsing and validation.
Resolved(s) == Streaming(s) \/ (pc[s] = "responded" /\ file_size[s] >= 0)

\* Every chunk yielded so far holds exactly the bytes its read asked for.
AllExact(s) ==
  \A i \in 1..Len(chunks[s]) :
    chunks[s][i].len = reads[s][i].to - reads[s][i].from + 1

\* Every chunk yielded so far holds at least one byte.
AllPositive(s) == \A i \in 1..Len(chunks[s]) : chunks[s][i].len >= 1

\* Decimal text of a natural number, as a client writes it in a header.
DigitChar(d) ==
  CASE d = 0 -> "0" [] d = 1 -> "1" [] d = 2 -> "2" [] d = 3 -> "3"
    [] d = 4 -> "4" [] d = 5 -> "5" [] d = 6 -> "6" [] d = 7 -> "7"
    [] d = 8 -> "8" [] d = 9 -> "9"

RECURSIVE Decimal(_)
Decimal(n) ==
  IF n < 10 THEN <<DigitChar(n)>> ELSE Decimal(n \div 10) \o <<DigitChar(n % 10)>>

\* The header "bytes=<a>-<b>" and the open-ended header "bytes=<a>-".
ClosedHeader(a, b) ==
  [present |-> TRUE, text |-> <<"bytes=">> \o Decimal(a) \o <<"-">> \o Decimal(b)]
OpenHeader(a) ==
  [present |-> TRUE, text |-> <<"bytes=">> \o Decimal(a) \o <<"-">>]

\* Byte positions a header of the model can name.
Positions == 0..(MaxSize + 1)

\* ------------------------------------------------------------------ C1
\* C1: for every objectSize > 0, a stream request with no Range header is
\* resolved to the range {0, objectSize - 1} and streamed, and once the relay
\* has finished against a store that returned the requested bytes on every
\* read, the number of bytes emitted equals objectSize.
C1_FullObject ==
  \A s \in Streams :
    (Resolved(s) /\ ~range[s].present /\ blobSize > 0) =>
      /\ Streaming(s)
      /\ start_byte[s] = 0
      /\ end_byte[s] = blobSize - 1
      /\ (pc[s] = "done" /\ AllExact(s)) => Emitted(s) = blobSize

\* A full object larger than one chunk was relayed, without a Range header,
\* in several exact reads.
C1_Witness ==
  \E s \in Streams :
    /\ pc[s] = "done" /\ ~range[s].present /\ AllExact(s)
    /\ blobSize > chunk_size
    /\ Len(reads[s]) >= 2
    /\ Emitted(s) = blobSize

\* ------------------------------------------------------------------ C2
\* C2: for every header "bytes=<a>-<b>" with 0 <= a <= b < objectSize the
\* resolved range is exactly {a, b}, and once the relay has finished against
\* a store that returned the requested bytes it has emitted b - a + 1 bytes.
C2_ClosedRange ==
  \A s \in Streams : \A a, b \in Positions :
    (Resolved(s) /\ range[s] = ClosedHeader(a, b) /\ a <= b /\ b < blobSize) =>
      /\ Streaming(s)
      /\ start_byte[s] = a
      /\ end_byte[s] = b
      /\ (pc[s] = "done" /\ AllExact(s)) => Emitted(s) = b - a + 1

\* "bytes=1-2" on a blob of at least 3 bytes was relayed: 2 bytes.
C2_Witness ==
  \E s \in Streams :
    /\ pc[s] = "done" /\ AllExact(s)
    /\ range[s] = ClosedHeader(1, 2) /\ blobSize >= 3
    /\ start_byte[s] = 1 /\ end_byte[s] = 2
    /\ Emitted(s) = 2

\* ------------------------------------------------------------------ C3
\* C3: for every open-ended header "bytes=<a>-" with 0 <= a < objectSize the
\* resolved range is {a, objectSize - 1}.
C3_OpenEnded ==
  \A s \in Streams : \A a \in Positions :
    (Resolved(s) /\ range[s] = OpenHeader(a) /\ a < blobSize) =>
      /\ Streaming(s)
      /\ start_byte[s] = a
      /\ end_byte[s] = blobSize - 1

\* "bytes=1-" on a blob of 3 bytes was resolved to {1, 2}.
C3_Witness ==
  \E s \in Streams :
    /\ Streaming(s) /\ range[s] = OpenHeader(1) /\ blobSize = 3
    /\ start_byte[s] = 1 /\ end_byte[s] = 2

\* ------------------------------------------------------------------ C4
\* C4: whenever the parsed start_byte is >= objectSize or < 0, the request
\* ends with 416, no read of the blob is issued and no body byte is emitted.
C4_Unsatisfiable ==
  \A s \in Streams :
    (Resolved(s) /\ exc[s] # "ValueError"
       /\ (start_byte[s] >= blobSize \/ start_byte[s] < 0)) =>
      /\ pc[s] = "responded"
      /\ status[s] = 416
      /\ reads[s] = <<>>
      /\ chunks[s] = <<>>

\* A header whose start is exactly objectSize was answered 416.
C4_Witness ==
  \E s \in Streams :
    /\ pc[s] = "responded" /\ status[s] = 416
    /\ blobSize > 0 /\ range[s] = OpenHeader(blobSize)
    /\ start_byte[s] = blobSize
    /\ reads[s] = <<>>

\* ------------------------------------------------------------------ C5
\* C5: when the header's end value exceeds objectSize - 1 and its start is
\* valid, the request is not rejected and the end is clamped: the range used
\* for Content-Range, Content-Length and the relay is {start, objectSize - 1}.
C5_EndClamped ==
  \A s \in Streams : \A a, b \in Positions :
    (Resolved(s) /\ range[s] = ClosedHeader(a, b) /\ a < blobSize /\ b > blobSize - 1) =>
      /\ Streaming(s)
      /\ end_byte[s] = blobSize - 1
      /\ headers[s].content_range.end = blobSize - 1
      /\ headers[s].content_length = blobSize - a

\* ------------------------------------------------------------------ C6
\* C6: a Range header whose start part is not an integer ("bytes=a-1") is
\* answered 400; it never escapes as an unhandled failure (500), and no read
\* of the blob is issued.
C6_MalformedIs400 ==
  \A s \in Streams :
    (Resolved(s) /\ range[s].present /\ Len(range[s].text) >= 2
       /\ range[s].text[1] = "bytes=" /\ range[s].text[2] = "a") =>
      /\ status[s] = 400
      /\ exc[s] = "none"
      /\ reads[s] = <<>>

\* ------------------------------------------------------------------ C7
\* C7: a successful stream request without a Range header is answered 200
\* with Content-Length = objectSize; 206 is used only when a range was
\* requested.
C7_FullObjectIs200 ==
  \A s \in Streams :
    /\ (Streaming(s) /\ ~range[s].present) =>
         (status[s] = 200 /\ headers[s].content_length = blobSize)
    /\ status[s] = 206 => range[s].present

\* ------------------------------------------------------------------ C8
\* C8: for every 206 response, Content-Length equals end - start + 1 of the
\* range named in Content-Range, whose end is < objectSize, and equals the
\* number of body bytes emitted when the stream completes cleanly.
C8_ContentLengthIsBody ==
  \A s \in Streams :
    status[s] = 206 =>
      /\ headers[s].content_length =
           headers[s].content_range.end - headers[s].content_range.start + 1
      /\ headers[s].content_range.size = blobSize
      /\ headers[s].content_range.end < blobSize
      /\ pc[s] = "done" => Emitted(s) = headers[s].content_length

\* ------------------------------------------------------------------ C9
\* C9: when the catalog has no record of the requested video id, the request
\* ends with 404 and neither the size query nor any read is issued.
C9_NotFound ==
  \A s \in Streams :
    (pc[s] # "idle" /\ video_id[s] \notin Catalog) =>
      /\ pc[s] \in {"lookup", "responded"}
      /\ pc[s] = "responded" => status[s] = 404
      /\ headCalls[s] = 0
      /\ reads[s] = <<>>

\* A request for an unknown video carrying a Range header was answered 404.
C9_Witness ==
  \E s \in Streams :
    /\ pc[s] = "responded" /\ video_id[s] \notin Catalog
    /\ range[s].present
    /\ status[s] = 404 /\ headCalls[s] = 0

\* ------------------------------------------------------------------ C10
\* C10: for every range that passed validation and a store that returns
\* between 1 and the requested number of bytes per read, every chunk yielded
\* has length > 0 and, once the relay has finished, the chunk lengths sum to
\* end_byte - start_byte + 1.
C10_ChunksCoverRange ==
  \A s \in Streams :
    (Streaming(s) /\ AllPositive(s)) =>
      /\ \A i \in 1..Len(chunks[s]) : chunks[s][i].len > 0
      /\ pc[s] = "done" => Emitted(s) = end_byte[s] - start_byte[s] + 1

\* ------------------------------------------------------------------ C11
\* The bytes of the blob a chunk holds, as positions in the blob.
ChunkBytes(c) == [i \in 1..c.len |-> c.from + i - 1]

RECURSIVE Concat(_)
Concat(cs) == IF Len(cs) = 0 THEN <<>> ELSE ChunkBytes(cs[1]) \o Concat(Tail(cs))

\* The bytes one direct read of [from, to] returns.
DirectRead(from, to) == [i \in 1..(to - from + 1) |-> from + i - 1]

\* C11: with a store that returns exactly the requested bytes, the relay over
\* {s, e} with chunk size c issues the reads [s, s+c-1], [s+c, s+2c-1], ...,
\* the last one ending at e, and the concatenation of the chunks yielded is
\* byte for byte a single direct read of {s, e}.
C11_ReadPattern ==
  \A s \in Streams :
    AllExact(s) =>
      /\ \A i \in 1..Len(reads[s]) :
           /\ reads[s][i].from = start_byte[s] + (i - 1) * chunk_size
           /\ reads[s][i].to = Min(reads[s][i].from + chunk_size - 1, end_byte[s])
      /\ pc[s] = "done" =>
           /\ Len(reads[s]) > 0 => reads[s][Len(reads[s])].to = end_byte[s]
           /\ Concat(chunks[s]) = DirectRead(start_byte[s], end_byte[s])

\* A range longer than one chunk was relayed in exact reads, the last one
\* shorter than a chunk.
C11_Witness ==
  \E s \in Streams :
    /\ pc[s] = "done" /\ AllExact(s)
    /\ Len(reads[s]) = 2
    /\ reads[s][1].to - reads[s][1].from + 1 = chunk_size
    /\ reads[s][2].to - reads[s][2].from + 1 < chunk_size
    /\ Concat(chunks[s]) = DirectRead(start_byte[s], end_byte[s])

\* ------------------------------------------------------------------ C12
\* C12: if the store returns zero bytes for a read issued while the cursor is
\* <= end_byte, the relay ends the chunk sequence and signals ShortRead: the
\* empty result is not yielded as a chunk and no read is issued after it.
C12_ShortReadStops ==
  \A s \in Streams :
    /\ \A i \in 1..Len(chunks[s]) : chunks[s][i].len > 0
    /\ \A i \in 1..(Len(reads[s]) - 1) : reads[s][i + 1] # reads[s][i]

\* ------------------------------------------------------------------ C13
\* Bytes returned by the reads before the i-th one.
ReturnedBefore(s, i) == SumLen(SubSeq(chunks[s], 1, i - 1))

\* C13: the relay advances its cursor by the number of bytes actually
\* returned, not by the requested length: every read starts at start_byte plus
\* the bytes returned so far.  No read is issued once the cursor is past
\* end_byte, and a relay that finished after reading anything finished with
\* the cursor at end_byte + 1, the last chunk ending at end_byte.
C13_AdvanceByReturned ==
  \A s \in Streams :
    /\ \A i \in 1..Len(reads[s]) :
         /\ reads[s][i].from = start_byte[s] + ReturnedBefore(s, i)
         /\ reads[s][i].from <= end_byte[s]
    /\ pc[s] \in {"loop", "done"} => current_offset[s] = start_byte[s] + Emitted(s)
    /\ (pc[s] = "done" /\ Len(reads[s]) > 0) =>
         /\ Len(chunks[s]) = Len(reads[s])
         /\ current_offset[s] = end_byte[s] + 1
         /\ chunks[s][Len(chunks[s])].from + chunks[s][Len(chunks[s])].len
              = end_byte[s] + 1

\* The read at the final boundary of the range returned fewer bytes than
\* requested (but some); one more read fetched the rest and the relay finished.
C13_Witness ==
  \E s \in Streams :
    /\ pc[s] = "done"
    /\ current_offset[s] = end_byte[s] + 1
    /\ \E i \in 1..(Len(reads[s]) - 1) :
         /\ reads[s][i].to = end_byte[s]
         /\ chunks[s][i].len > 0
         /\ chunks[s][i].len < reads[s][i].to - reads[s][i].from + 1
         /\ i + 1 = Len(reads[s])

\* ------------------------------------------------------------------ C14
\* The step is call c leaving the given position of enroll_creator.
Leaves(c, at) == apc[c] = at /\ apc'[c] # at

\* C14: a user's role becomes creator only by enroll_creator called by a
\* caller whose role is admin, and then only the target's role changes.  A
\* caller with any other role gets 403, an unknown target 404 and a target
\* that is a creator already 400, each with every role unchanged.
C14_OnlyAdminPromotes ==
  [][
    /\ \A u \in UserIds :
         (roles'[u] = "creator" /\ roles[u] # "creator") =>
           \E c \in Calls :
             /\ Leaves(c, "update")
             /\ user_id[c] = u
             /\ current_role[c] = "admin"
             /\ astatus'[c] = 200
             /\ \A v \in UserIds \ {u} : roles'[v] = roles[v]
    /\ \A c \in Calls :
         /\ (Leaves(c, "auth") /\ roles[caller[c]] \in Roles \ {"admin"}) =>
              (astatus'[c] = 403 /\ apc'[c] = "responded" /\ roles' = roles)
         /\ (Leaves(c, "lookup") /\ roles[user_id[c]] = "absent") =>
              (astatus'[c] = 404 /\ apc'[c] = "responded" /\ roles' = roles)
         /\ (Leaves(c, "lookup") /\ roles[user_id[c]] = "creator") =>
              (astatus'[c] = 400 /\ apc'[c] = "responded" /\ roles' = roles)
         /\ apc[c] = "responded" => (apc'[c] = "responded" /\ astatus'[c] = astatus[c])
  ]_vars

\* An admin promoted a user while a non-admin caller was refused with 403.
C14_Witness ==
  \E c, d \in Calls :
    /\ astatus[c] = 200 /\ current_role[c] = "admin"
    /\ roles[user_id[c]] = "creator"
    /\ astatus[d] = 403 /\ current_role[d] # "admin"

\* ------------------------------------------------------------------ C15
\* C15: every range that passes resolution (the request is not answered 400
\* or 416) satisfies 0 <= start_byte <= end_byte, whatever the Range header
\* and the object size, also when the header's end is smaller than its start.
C15_RangeInvariant ==
  \A s \in Streams :
    Streaming(s) => (0 <= start_byte[s] /\ start_byte[s] <= end_byte[s])

\* ------------------------------------------------------------------ C16
\* C16: within one stream the chunks are emitted in strictly ascending byte
\* order, in the order their reads were issued, and reads are sequential: a
\* read is issued only after the previous one returned and its chunk was
\* yielded, so at most one read is in flight.
C16_Sequential ==
  \A s \in Streams :
    /\ Len(chunks[s]) <= Len(reads[s])
    /\ Len(reads[s]) <= Len(chunks[s]) + 1
    /\ pc[s] \in {"reading", "yield"} <=>
         (Len(reads[s]) = Len(chunks[s]) + 1 /\ pc[s] \notin {"aborted", "cancelled"})
    /\ \A i \in 1..Len(chunks[s]) : chunks[s][i].from = reads[s][i].from
    /\ LET bytes == Concat(chunks[s]) IN
         \A i, j \in 1..Len(bytes) : i < j => bytes[i] < bytes[j]

\* Two non-empty chunks were emitted and a third read is in flight.
C16_Witness ==
  \E s \in Streams :
    /\ pc[s] = "reading"
    /\ Len(reads[s]) = 3 /\ Len(chunks[s]) = 2
    /\ chunks[s][1].len > 0 /\ chunks[s][2].len > 0

\* ------------------------------------------------------------------ C17
\* C17: every outcome of range validation (a header that does not parse, an
\* unsatisfiable start) is decided before any read of the blob is issued and
\* before any body byte is emitted, and any read is issued only after the
\* range passed validation; once the first chunk has been emitted the
\* response status and headers never change.
C17_ValidateBeforeBody ==
  [][\A s \in Streams :
       /\ (exc'[s] = "ValueError" \/ status'[s] \in {400, 416}) =>
            (reads'[s] = <<>> /\ chunks'[s] = <<>> /\ pulled'[s] = 0)
       /\ reads'[s] # <<>> =>
            (status'[s] = 206 /\ exc'[s] # "ValueError"
               /\ ~(start_byte'[s] >= blobSize' \/ start_byte'[s] < 0))
       /\ chunks[s] # <<>> =>
            (status'[s] = status[s] /\ headers'[s] = headers[s])
  ]_vars

\* A read failed after a chunk had been emitted: the stream is cut off with
\* the status and headers it started with.
C17_Witness ==
  \E s \in Streams :
    /\ pc[s] = "aborted" /\ chunks[s] # <<>>
    /\ status[s] = 206
    /\ headers[s] = ResponseHeaders(start_byte[s], end_byte[s], file_size[s])

\* ------------------------------------------------------------------ C18
\* C18: a stream request goes through catalog lookup, then exactly one
\* object-size query, then range resolution, then the relay's reads.  The
\* size query is issued only for a video the catalog holds; resolution issues
\* no store call; no read is issued before the size query returned and the
\* range passed validation.
C18_StepOrder ==
  [][\A s \in Streams :
       /\ headCalls'[s] <= 1
       /\ pc'[s] \in {"idle", "lookup"} => (headCalls'[s] = 0 /\ reads'[s] = <<>>)
       /\ headCalls'[s] # headCalls[s] =>
            (pc[s] = "lookup" /\ video_id[s] \in Catalog /\ pc'[s] = "head")
       /\ pc'[s] = "head" => (headCalls'[s] = 1 /\ reads'[s] = <<>>)
       /\ <<start_byte'[s], end_byte'[s]>> # <<start_byte[s], end_byte[s]>> =>
            /\ pc[s] = "head"
            /\ headCalls'[s] = headCalls[s]
            /\ reads[s] = <<>> /\ reads'[s] = <<>>
       /\ reads'[s] # reads[s] =>
            /\ headCalls[s] = 1
            /\ file_size[s] = blobSize
            /\ exc[s] = "none" /\ status[s] = 206
            /\ ~Unsatisfiable(start_byte[s], file_size[s])
  ]_vars

\* A ranged request that went through all four steps: one size query, a
\* resolved range and two reads.
C18_Witness ==
  \E s \in Streams :
    /\ range[s] # NoHeader
    /\ headCalls[s] = 1
    /\ start_byte[s] > 0
    /\ Len(reads[s]) = 2

\* ------------------------------------------------------------------ C19
\* C19: when a read of the blob fails mid-stream the relay aborts: the failed
\* read is the last one issued for the request (it is not retried), no
\* further chunk is yielded, and the chunks emitted before the failure stay
\* as they were (nothing is emitted again).
C19_AbortOnReadFailure ==
  [][\A s \in Streams :
       /\ (exc'[s] = "StoreError" /\ reads'[s] # <<>>) =>
            /\ pc'[s] = "aborted"
            /\ Len(reads'[s]) = Len(chunks'[s]) + 1
       /\ (exc[s] = "StoreError" /\ reads[s] # <<>>) =>
            /\ reads'[s] = reads[s]
            /\ chunks'[s] = chunks[s]
            /\ pc'[s] = pc[s]
  ]_vars

\* The third read failed after two non-empty chunks had been emitted.
C19_Witness ==
  \E s \in Streams :
    /\ exc[s] = "StoreError" /\ pc[s] = "aborted"
    /\ Len(reads[s]) = 3 /\ Len(chunks[s]) = 2
    /\ SumLen(chunks[s]) >= 2

\* ------------------------------------------------------------------ C20
\* C20: the relay reads only on demand.  The number of reads issued never
\* exceeds the number of chunks the downstream has asked for, which is at
\* most one more than the number of chunks emitted; once the client has
\* disconnected no further read is issued and no further chunk is emitted.
C20_StopOnDisconnect ==
  [][\A s \in Streams :
       /\ Len(reads'[s]) <= pulled'[s]
       /\ pulled'[s] <= Len(chunks'[s]) + 1
       /\ ~connected'[s] => pc'[s] = "cancelled"
       /\ ~connected[s] =>
            /\ reads'[s] = reads[s]
            /\ chunks'[s] = chunks[s]
            /\ pulled'[s] = pulled[s]
  ]_vars

\* The client went away during the second read, after one chunk had reached
\* it.
C20_Witness ==
  \E s \in Streams :
    /\ ~connected[s] /\ pc[s] = "cancelled"
    /\ Len(chunks[s]) = 1 /\ chunks[s][1].len > 0
    /\ Len(reads[s]) = 2 /\ pulled[s] = 2

\* ------------------------------------ two requests served at the same time
\* Two GET /{video_id}/stream requests are served by one event loop: each is
\* its own call of stream_video with its own locals and its own generator,
\* and the steps of the two interleave at every await.
PairStreams == {1, 2}

\* The headers the two requests carry: an open-ended range from 1 and the
\* closed range 0-1, which overlap.
PairHeaders == {OpenHeader(1), ClosedHeader(0, 1)}

InitPair ==
  /\ blobSize \in {MaxSize - 1, MaxSize}
  /\ pc = [s \in PairStreams |-> "idle"]
  /\ video_id = [s \in PairStreams |-> 0]
  /\ range = [s \in PairStreams |-> NoHeader]
  /\ file_size = [s \in PairStreams |-> -1]
  /\ start_byte = [s \in PairStreams |-> 0]
  /\ end_byte = [s \in PairStreams |-> 0]
  /\ exc = [s \in PairStreams |-> "none"]
  /\ status = [s \in PairStreams |-> 0]
  /\ headers = [s \in PairStreams |-> NoHeaders]
  /\ current_offset = [s \in PairStreams |-> 0]
  /\ chunk = [s \in PairStreams |-> -1]
  /\ headCalls = [s \in PairStreams |-> 0]
  /\ reads = [s \in PairStreams |-> <<>>]
  /\ chunks = [s \in PairStreams |-> <<>>]
  /\ pulled = [s \in PairStreams |-> 0]
  /\ connected = [s \in PairStreams |-> TRUE]
  /\ roles = [u \in UserIds |-> "consumer"]
  /\ NoCalls

\* GET /{video_id}/stream arrives on one of the two connections.
RequestPair(s) ==
  /\ pc[s] = "idle"
  /\ \E vid \in VideoIds, h \in PairHeaders :
       /\ video_id' = [video_id EXCEPT ![s] = vid]
       /\ range' = [range EXCEPT ![s] = h]
  /\ pc' = [pc EXCEPT ![s] = "lookup"]
  /\ UNCHANGED <<adminVars, blobSize, connVars, resVars, relayVars, headCalls>>

NextPair ==
  \E s \in PairStreams :
    \/ RequestPair(s)
    \/ LookupMissing(s)
    \/ LookupFound(s)
    \/ HeadFail(s)
    \/ HeadReturn(s)
    \/ Pull(s)
    \/ Disconnect(s)
    \/ IssueRead(s)
    \/ ReadReturn(s)
    \/ ReadFail(s)
    \/ Yield(s)
    \/ Advance(s)
    \/ Finish(s)

SpecPair == InitPair /\ [][NextPair]_vars

\* ------------------------------------------------------------------ C21
\* The position the cursor of stream s has after its first i - 1 chunks.
CursorBefore(s, i) == start_byte[s] + SumLen(SubSeq(chunks[s], 1, i - 1))

\* The state of stream s is the one it has when it runs alone: its range
\* comes from its own header and the blob's size, and its reads, chunks and
\* cursor follow from its own range and the lengths the store returned to it.
OwnRun(s) ==
  LET r == ParseRange(range[s], file_size[s])
      n == Len(chunks[s])
      m == Len(reads[s])
  IN /\ Streaming(s) =>
          /\ file_size[s] = blobSize
          /\ r.exc = "none" /\ start_byte[s] = r.start /\ end_byte[s] = r.end
     /\ m \in {n, n + 1}
     /\ \A i \in 1..m :
          reads[s][i] = [from |-> CursorBefore(s, i),
                         to |-> ChunkEnd(CursorBefore(s, i), end_byte[s])]
     /\ \A i \in 1..n :
          /\ chunks[s][i].from = CursorBefore(s, i)
          /\ chunks[s][i].len \in StoreReturns(reads[s][i].from, reads[s][i].to, blobSize)
     /\ Streaming(s) =>
          current_offset[s] =
            IF pc[s] \in {"suspended", "advance"} \/ (pc[s] = "cancelled" /\ m = n /\ n > 0)
            THEN CursorBefore(s, n)
            ELSE CursorBefore(s, n + 1)

\* C21: two stream requests served at the same time share no mutable state.
\* Under every interleaving of their size queries and reads, each stream's
\* range, cursor, sequence of reads and sequence of chunks are the ones it
\* produces when run alone.
C21_Independent == \A s \in PairStreams : OwnRun(s)

\* Both requests are in the middle of a read, each after a non-empty chunk,
\* with their cursors at different positions.
C21_Witness ==
  /\ DOMAIN pc = PairStreams
  /\ \A s \in PairStreams : pc[s] = "reading" /\ Emitted(s) > 0
  /\ range[1] # range[2]
  /\ current_offset[1] # current_offset[2]

\* ------------------------------------------------------------------ C22
\* C22: every read the relay issues asks for at most chunk_size bytes, from
\* the cursor to a read end with cursor <= read end <= end_byte, however long
\* the range is; the relay holds at most one chunk at a time: at most one
\* read is outstanding and no chunk is longer than chunk_size.
C22_BoundedReads ==
  \A s \in Streams :
    /\ \A i \in 1..Len(reads[s]) :
         /\ reads[s][i].to - reads[s][i].from + 1 <= chunk_size
         /\ reads[s][i].from <= reads[s][i].to
         /\ reads[s][i].to <= end_byte[s]
    /\ Len(reads[s]) <= Len(chunks[s]) + 1
    /\ chunk[s] <= chunk_size
    /\ \A i \in 1..Len(chunks[s]) : chunks[s][i].len <= chunk_size

\* A range longer than one chunk: the first read asked for a full chunk and a
\* second read followed.
C22_Witness ==
  \E s \in Streams :
    /\ end_byte[s] - start_byte[s] + 1 > chunk_size
    /\ Len(reads[s]) >= 2
    /\ reads[s][1].to - reads[s][1].from + 1 = chunk_size
    /\ chunks[s][1].len = chunk_size

\* ------------------------------------------------------------------ C23
\* The header names more than one range or has more than two parts: it holds
\* a comma or more than one "-".
OverLong(text) ==
  \/ \E i \in 1..Len(text) : text[i] = ","
  \/ Cardinality({i \in 1..Len(text) : text[i] = "-"}) > 1

\* C23: a multi-range or otherwise over-long Range expression is rejected and
\* never streamed as if it were a single range: no response starts streaming
\* and no read is issued for it; a header that is streamed was split on "-"
\* into at most two parts.
C23_MultiRangeRejected ==
  \A s \in Streams :
    (range[s].present /\ OverLong(range[s].text)) =>
      /\ ~Streaming(s)
      /\ reads[s] = <<>>
      /\ status[s] # 206

\* ------------------------------------------------------------------ C24
\* C24 as stated: when the object is empty, every stream request for an
\* existing video, whatever its Range header, is answered 416 and no read is
\* issued.
C24_EmptyAlways416 ==
  \A s \in Streams :
    (blobSize = 0 /\ Resolved(s)) =>
      /\ status[s] = 416
      /\ reads[s] = <<>> /\ chunks[s] = <<>>

\* C24 as amended: when the object is empty, every stream request for an
\* existing video whose Range header is absent or parses is answered 416 (the
\* default range {0, -1} and every parsed start fail start_byte >= file_size);
\* whatever the header, no read is issued, no response starts streaming and
\* no 200 or 206 is produced.
C24_EmptyObject ==
  \A s \in Streams :
    (blobSize = 0 /\ Resolved(s)) =>
      /\ exc[s] # "ValueError" => status[s] = 416
      /\ ~Streaming(s)
      /\ status[s] \notin {200, 206}
      /\ reads[s] = <<>> /\ chunks[s] = <<>>

\* A request without a Range header on an empty object: the default range is
\* {0, -1} and the answer is 416.
C24_Witness ==
  \E s \in Streams :
    /\ blobSize = 0 /\ range[s] = NoHeader
    /\ pc[s] = "responded" /\ status[s] = 416
    /\ start_byte[s] = 0 /\ end_byte[s] = -1

\* ------------------------------------------------------------------ C25
\* C25: against a store that returns at least one byte on every read, the
\* relay's cursor strictly increases from read to read and stays within
\* start_byte..end_byte + 1, the relay issues at most end_byte - start_byte + 1
\* reads, and when it finishes the cursor is at end_byte + 1.
C25_CursorProgress ==
  \A s \in Streams :
    (Streaming(s) /\ AllPositive(s)) =>
      /\ \A i \in 1..(Len(reads[s]) - 1) : reads[s][i].from < reads[s][i + 1].from
      /\ start_byte[s] <= current_offset[s]
      /\ current_offset[s] <= end_byte[s] + 1
      /\ Len(reads[s]) <= end_byte[s] - start_byte[s] + 1
      /\ pc[s] = "done" => current_offset[s] = end_byte[s] + 1

====
